---- MODULE Spec2Model ----
(***************************************************************************)
(* Temporal status stabilisation of the face mask detector:                *)
(* apply_temporal_smoothing and the per-face loop of detect_faces that     *)
(* drives it.  The face slots live in the zero-initialised global          *)
(* application state; the lock fields are function-local statics of        *)
(* apply_temporal_smoothing and are therefore shared by every face slot.   *)
(***************************************************************************)
EXTENDS Integers, Sequences, FiniteSets, TLC

\* mask_status_t
MASK_STATUS_UNKNOWN == 0
MASK_STATUS_WITH_MASK == 1
MASK_STATUS_WITHOUT_MASK == 2
MASK_STATUS_INCORRECT_MASK == 3

mask_status_t ==
    { MASK_STATUS_UNKNOWN, MASK_STATUS_WITH_MASK,
      MASK_STATUS_WITHOUT_MASK, MASK_STATUS_INCORRECT_MASK }

\* Length of face_detection_t.mask_history
HISTORY_SIZE == 10

\* Number of face slots of the detections array that the model drives
\* (the program has MAX_FACES of them).
NumFaces == 2

\* Caps on same_result_count and debug_frame_count (unbounded ints in the
\* program) for the frames with one face.
MaxStreak == 68
MaxDebugCount == 6

\* The same caps for the frames with several faces.
MaxSharedStreak == 12
MaxSharedDebugCount == 4

FaceIndex == 0 .. (NumFaces - 1)

VARIABLES
    detections,             \* app_state_t.detections[], the face slots
    current_locked_status,  \* static of apply_temporal_smoothing
    lock_frames_remaining,  \* static of apply_temporal_smoothing
    same_result_count,      \* static of apply_temporal_smoothing
    previous_result,        \* static of apply_temporal_smoothing
    debug_frame_count,      \* static of apply_temporal_smoothing
    last_call,              \* the latest call: slot, raw status, result, log
    run,                    \* observer: see RunAfter
    lock_run,               \* observer: see LockRunAfter
    script_pos,             \* observer: see ScriptAfter
    prev_ret,               \* observer: the result of the call before last
    held,                   \* observer: see HeldAfter
    roi_call                \* a create_roi / is_valid_roi call sequence

statics ==
    << current_locked_status, lock_frames_remaining, same_result_count,
       previous_result, debug_frame_count >>

observers == << last_call, run, lock_run, script_pos, prev_ret, held >>

vars == << detections, statics, observers, roi_call >>

\* A face slot of the zero-initialised g_app_state.
ZeroFace ==
    [ mask_history  |-> [k \in 0 .. (HISTORY_SIZE - 1) |-> 0],
      history_index |-> 0,
      history_count |-> 0,
      stable_status |-> MASK_STATUS_UNKNOWN,
      stable_count  |-> 0 ]

\* First call for a slot: the history-initialisation block.
SeedFaceMutant(face, current_status) ==
    [ face EXCEPT
        !.mask_history  = [k \in 0 .. (HISTORY_SIZE - 1) |->
                             IF k = HISTORY_SIZE - 1 THEN @[k]
                             ELSE current_status],
        !.history_index = 0,
        !.history_count = 1,
        !.stable_count  = 1 ]

SeedFace(face, current_status) ==
    [ face EXCEPT
        !.mask_history  = [k \in 0 .. (HISTORY_SIZE - 1) |-> current_status],
        !.history_index = 0,
        !.history_count = 1,
        !.stable_status = current_status,
        !.stable_count  = 1 ]

\* "Count consecutive identical results"
PreviousAfterMutant(current_status) ==
    previous_result

CountAfterMutant(current_status) ==
    same_result_count + 1

CountAfter(current_status) ==
    IF current_status = previous_result
    THEN same_result_count + 1
    ELSE 1

PreviousAfter(current_status) ==
    IF current_status = previous_result
    THEN previous_result
    ELSE current_status

\* int lock_duration = (current_status == MASK_STATUS_WITH_MASK) ? 90 : 60;
LockDurationMutant(current_status) ==
    IF current_status = MASK_STATUS_WITH_MASK THEN 60 ELSE 90

LockDuration(current_status) ==
    IF current_status = MASK_STATUS_WITH_MASK THEN 90 ELSE 60

\* "No active lock, establish one if we have consistent results"
EstablishMutant(current_status) ==
    CountAfter(current_status) >= 4

Establish(current_status) ==
    CountAfter(current_status) >= 5

\* "Check for special case: faster mask removal"
FastExitSymmetricMutant(current_status) ==
    /\ current_status # current_locked_status
    /\ CountAfter(current_status) >= 8

FastExitMutant(current_status) ==
    /\ current_locked_status = MASK_STATUS_WITH_MASK
    /\ current_status = MASK_STATUS_WITHOUT_MASK
    /\ CountAfter(current_status) >= 7

FastExit(current_status) ==
    /\ current_locked_status = MASK_STATUS_WITH_MASK
    /\ current_status = MASK_STATUS_WITHOUT_MASK
    /\ CountAfter(current_status) >= 8

\* "Lock has expired, check if we should change"
ExpiredSwitchMutant(current_status) ==
    /\ CountAfter(current_status) >= 11
    /\ current_status # current_locked_status

ExpiredSwitch(current_status) ==
    /\ CountAfter(current_status) >= 12
    /\ current_status # current_locked_status

\* "Extend the lock a bit more"
ExpiredExtendMutant(current_status) ==
    CountAfter(current_status) < 11

ExpiredExtend(current_status) ==
    CountAfter(current_status) < 12

\* The countdown is live after this call's decrement.
TimeRemainingMutant ==
    lock_frames_remaining - 1 >= 0

TimeRemaining ==
    lock_frames_remaining - 1 > 0

\* The name log_info prints for a raw status.
StatusName(status) ==
    IF status = MASK_STATUS_WITH_MASK THEN "MASK"
    ELSE IF status = MASK_STATUS_WITHOUT_MASK THEN "NO-MASK"
    ELSE "UNKNOWN"

\* The name log_info prints for the locked status.
LockedName(status) ==
    IF status = MASK_STATUS_WITH_MASK THEN "MASK" ELSE "NO-MASK"

\* "Debug output every second or so": the records one call emits, given the
\* statics as the call has left them when it reaches the debug block.
DebugOutput(current_status, locked, remaining, count) ==
    IF (debug_frame_count + 1) % 30 = 0
    THEN << [status |-> StatusName(current_status), count |-> count] >>
         \o ( IF locked # MASK_STATUS_UNKNOWN
              THEN << [locked |-> LockedName(locked), left |-> remaining] >>
              ELSE << >> )
    ELSE << >>

\* return current_locked_status; of a lock that holds
HeldStatusMutant(current_status) ==
    current_status

HeldStatus(current_status) ==
    current_locked_status

\* "Fallback: ... use previous stable status or default to current input"
FallbackMutant(face, current_status) ==
    current_status

\* The function ends without its last return statement.
FallbackNoReturnMutant(face, current_status) ==
    IF face.stable_status # MASK_STATUS_UNKNOWN
    THEN face.stable_status
    ELSE 0 - 1

Fallback(face, current_status) ==
    IF face.stable_status # MASK_STATUS_UNKNOWN
    THEN face.stable_status
    ELSE current_status

\* The call also records the value it returns in the face's history ring.
OutcomeMutant(face, ret, locked, remaining, count, prev, debug, log, branch) ==
    [ face |-> [face EXCEPT
                  !.mask_history[face.history_index] = ret,
                  !.history_index = (@ + 1) % HISTORY_SIZE],
      ret |-> ret, locked |-> locked, remaining |-> remaining,
      count |-> count, prev |-> prev, debug |-> debug, log |-> log,
      branch |-> branch ]

\* What one call does: the face and the statics it leaves, the value it
\* returns, the records it logs and the branch it took.
Outcome(face, ret, locked, remaining, count, prev, debug, log, branch) ==
    [ face |-> face, ret |-> ret, locked |-> locked, remaining |-> remaining,
      count |-> count, prev |-> prev, debug |-> debug, log |-> log,
      branch |-> branch ]

\* Tail of a call that returned from none of the locking branches.
FallThrough(face, current_status, remaining, branch) ==
    Outcome(face, Fallback(face, current_status),
            current_locked_status, remaining,
            CountAfter(current_status), PreviousAfter(current_status),
            debug_frame_count + 1,
            DebugOutput(current_status, current_locked_status, remaining,
                        CountAfter(current_status)),
            branch)

\* mask_status_t apply_temporal_smoothing(face_detection_t* face,
\*                                        mask_status_t current_status)
\* evaluated in the current statics: the value returned, the face and the
\* statics it leaves, the records it logs and the branch it took.
SmoothingResult(face, current_status) ==
    IF face.history_count = 0
    THEN Outcome(SeedFace(face, current_status), current_status,
                 current_locked_status, lock_frames_remaining,
                 same_result_count, previous_result, debug_frame_count,
                 << >>, "seed")
    ELSE IF current_locked_status # MASK_STATUS_UNKNOWN
    THEN IF TimeRemaining
         THEN IF FastExit(current_status)
              THEN Outcome(face, current_status, current_status, 60,
                           CountAfter(current_status),
                           PreviousAfter(current_status),
                           debug_frame_count, << >>, "fast_exit")
              ELSE Outcome(face, HeldStatus(current_status),
                           current_locked_status, lock_frames_remaining - 1,
                           CountAfter(current_status),
                           PreviousAfter(current_status),
                           debug_frame_count, << >>, "hold")
         ELSE IF ExpiredSwitch(current_status)
              THEN Outcome(face, current_status, current_status,
                           LockDuration(current_status),
                           CountAfter(current_status),
                           PreviousAfter(current_status),
                           debug_frame_count, << >>, "switch")
              ELSE IF ExpiredExtend(current_status)
              THEN Outcome(face, current_locked_status,
                           current_locked_status, 20,
                           CountAfter(current_status),
                           PreviousAfter(current_status),
                           debug_frame_count, << >>, "extend")
              ELSE FallThrough(face, current_status,
                               lock_frames_remaining - 1, "gap")
    ELSE IF Establish(current_status)
         THEN Outcome(face, current_status, current_status,
                      LockDuration(current_status),
                      CountAfter(current_status),
                      PreviousAfter(current_status),
                      debug_frame_count, << >>, "establish")
         ELSE FallThrough(face, current_status, lock_frames_remaining,
                          "unlocked")

NoStatus == 0 - 1

\* Observer: the trailing run of equal raw statuses over the calls that ran
\* the locking logic (every call but a slot's first), and the locked status
\* that was in force when the run began.
RunAfter(res, current_status) ==
    IF res.branch = "seed" THEN run
    ELSE IF run.status = current_status
    THEN [run EXCEPT !.length = @ + 1]
    ELSE [ status |-> current_status, length |-> 1,
           lock |-> current_locked_status ]

\* Observer: the status R such that some call set the lock to R and every
\* call since then (that one included) carried the raw status R; NoStatus
\* when there is none.
LockRunAfter(res, current_status) ==
    IF res.locked # current_locked_status THEN res.locked
    ELSE IF lock_run = current_status THEN lock_run
    ELSE NoStatus

\* The end-to-end scenario for one face: frame 1 seeds with WithMask,
\* frames 2-6 deliver WithMask, the later frames deliver WithoutMask.
ScriptLength == 74

Script(n) ==
    IF n <= 6 THEN MASK_STATUS_WITH_MASK ELSE MASK_STATUS_WITHOUT_MASK

\* Observer: the number of calls made so far if they are exactly the first
\* calls of the scenario, for slot 0; NoStatus once a call departs from it.
ScriptAfter(f, current_status) ==
    IF /\ script_pos # NoStatus
       /\ script_pos < ScriptLength
       /\ f = 0
       /\ current_status = Script(script_pos + 1)
    THEN script_pos + 1
    ELSE NoStatus

\* Observer: the status S that the lock was last set to and the number of
\* calls made since the call that set it, over the window of calls that
\* follow that call; no status outside such a window.  The window is
\* HoldWindow calls for the frames with one face and SharedHoldWindow calls
\* for the frames with several faces.
HoldWindow == 90
SharedHoldWindow == 0

NoHold == [ status |-> NoStatus, calls |-> 0 ]

HeldAfter(res, window) ==
    IF res.locked # current_locked_status
    THEN IF res.locked # MASK_STATUS_UNKNOWN /\ window > 0
         THEN [ status |-> res.locked, calls |-> 0 ]
         ELSE NoHold
    ELSE IF held.status # NoStatus /\ held.calls < window
    THEN [held EXCEPT !.calls = @ + 1]
    ELSE NoHold

\* No ROI call sequence is under way.
RoiIdle == [ stage |-> "idle" ]

\* Process start: the zero-initialised face slots and the statics'
\* initialisers.
StabilizerInit ==
    /\ detections = [f \in FaceIndex |-> ZeroFace]
    /\ current_locked_status = MASK_STATUS_UNKNOWN
    /\ lock_frames_remaining = 0
    /\ same_result_count = 0
    /\ previous_result = MASK_STATUS_UNKNOWN
    /\ debug_frame_count = 0
    /\ last_call = [ face |-> NoStatus, raw |-> MASK_STATUS_UNKNOWN,
                     ret |-> MASK_STATUS_UNKNOWN, log |-> << >>,
                     branch |-> "none" ]
    /\ run = [ status |-> NoStatus, length |-> 0,
               lock |-> MASK_STATUS_UNKNOWN ]
    /\ lock_run = NoStatus
    /\ script_pos = 0
    /\ prev_ret = NoStatus
    /\ held = NoHold

Init ==
    /\ StabilizerInit
    /\ roi_call = RoiIdle

\* The raw classifications detect_faces passes on: what classify_mask and
\* classify_mask_simple_reliable return.
ClassifierStatus ==
    { MASK_STATUS_UNKNOWN, MASK_STATUS_WITH_MASK, MASK_STATUS_WITHOUT_MASK }

\* A call apply_temporal_smoothing(&detections[f], current_status) whose
\* result is res: the writes to the slot and the statics, and the observers.
Call(f, current_status, res, window) ==
    /\ detections' = [detections EXCEPT ![f] = res.face]
    /\ current_locked_status' = res.locked
    /\ lock_frames_remaining' = res.remaining
    /\ same_result_count' = res.count
    /\ previous_result' = res.prev
    /\ debug_frame_count' = res.debug
    /\ last_call' = [ face |-> f, raw |-> current_status, ret |-> res.ret,
                      log |-> res.log, branch |-> res.branch ]
    /\ run' = RunAfter(res, current_status)
    /\ lock_run' = LockRunAfter(res, current_status)
    /\ script_pos' = ScriptAfter(f, current_status)
    /\ prev_ret' = IF last_call.face = NoStatus THEN NoStatus
                   ELSE last_call.ret
    /\ held' = HeldAfter(res, window)
    /\ UNCHANGED roi_call

\* The call, provided it keeps the two counters within the given caps, with
\* the observer window of the frames it belongs to.
ApplyTemporalSmoothing(f, current_status, max_streak, max_debug, window) ==
    \E res \in { SmoothingResult(detections[f], current_status) } :
        /\ res.count <= max_streak
        /\ res.debug <= max_debug
        /\ Call(f, current_status, res, window)

\* One iteration of the loop of detect_faces.  It walks the slots
\* 0 .. count-1 of each frame in order, and the detector decides count anew
\* for every frame: slot f is processed right after slot f-1 of the same
\* frame, slot 0 at the start of any frame.
DetectFaces(f, raw_mask_status) ==
    /\ f = 0 \/ last_call.face = f - 1
    /\ ApplyTemporalSmoothing(f, raw_mask_status, MaxSharedStreak,
                              MaxSharedDebugCount, SharedHoldWindow)

Next ==
    \E f \in FaceIndex, raw_mask_status \in ClassifierStatus :
        DetectFaces(f, raw_mask_status)

Spec == Init /\ [][Next]_vars

\* Calls for one face slot only, with any status of the enumeration.
SingleFace(current_status) ==
    ApplyTemporalSmoothing(0, current_status, MaxStreak, MaxDebugCount,
                           HoldWindow)

NextSingle ==
    \E current_status \in mask_status_t : SingleFace(current_status)

SpecSingle == Init /\ [][NextSingle]_vars

\* Calls for one face slot with the streak allowed to outlast the longest
\* lock (90 frames); the hold observer is off.
MaxLongStreak == 92
MaxLongDebugCount == 5

LongRun(current_status) ==
    ApplyTemporalSmoothing(0, current_status, MaxLongStreak,
                           MaxLongDebugCount, 0)

NextLong ==
    \E current_status \in mask_status_t : LongRun(current_status)

SpecLong == Init /\ [][NextLong]_vars

\* Frames in which the detector finds every slot: detect_faces walks the
\* slots 0 .. count-1 with count = NumFaces in each frame, so the calls go
\* round the slots in order, beginning with the seed calls.
MaxPairStreak == 8
MaxPairDebugCount == 4
PairHoldWindow == 90

DetectAllFaces(f, raw_mask_status) ==
    /\ IF f = 0
       THEN last_call.face \in { NoStatus, NumFaces - 1 }
       ELSE last_call.face = f - 1
    /\ ApplyTemporalSmoothing(f, raw_mask_status, MaxPairStreak,
                              MaxPairDebugCount, PairHoldWindow)

NextPair ==
    \E f \in FaceIndex, raw_mask_status \in ClassifierStatus :
        DetectAllFaces(f, raw_mask_status)

SpecPair == Init /\ [][NextPair]_vars

(***************************************************************************)
(* Regions of interest: create_roi and is_valid_roi                        *)
(***************************************************************************)

\* The largest and the smallest int.
INT_MAX == 2147483647
INT_MIN == (0 - INT_MAX) - 1

\* The ints the ROI calls are tried on: -1 .. RoiMax and INT_MAX for the
\* ROI's fields, 0 .. ImageMax for the image's width and height.
RoiMax == 2
ImageMax == 3

RoiInts == ((0 - 1) .. RoiMax) \cup { INT_MAX }

ImageSizes == 0 .. ImageMax

\* roi_t create_roi(int x, int y, int width, int height)
CreateRoiMutant(x, y, width, height) ==
    [ x |-> x, y |-> y, width |-> width, height |-> height,
      valid |-> (width > 0 \/ height > 0) ]

CreateRoi(x, y, width, height) ==
    [ x |-> x, y |-> y, width |-> width, height |-> height,
      valid |-> (width > 0 /\ height > 0) ]

\* a + b leaves the range of int: the addition is undefined.
AddOverflows(a, b) ==
    \/ b > 0 /\ a > INT_MAX - b
    \/ b < 0 /\ a < INT_MIN - b

\* bool is_valid_roi(const roi_t* roi, int image_width, int image_height):
\* the values a build can return, the conjuncts evaluated left to right.
\* An int addition that overflows is undefined, and either value can come
\* out of it.
IsValidRoiOutcomes(is_null, roi, image_width, image_height) ==
    IF is_null \/ ~roi.valid THEN { FALSE }
    ELSE IF ~(roi.x >= 0 /\ roi.y >= 0) THEN { FALSE }
    ELSE IF AddOverflows(roi.x, roi.width) THEN BOOLEAN
    ELSE IF ~(roi.x + roi.width <= image_width) THEN { FALSE }
    ELSE IF AddOverflows(roi.y, roi.height) THEN BOOLEAN
    ELSE IF ~(roi.y + roi.height <= image_height) THEN { FALSE }
    ELSE { roi.width > 0 /\ roi.height > 0 }

\* The arguments of a call sequence create_roi, then is_valid_roi.
RoiInit ==
    /\ StabilizerInit
    /\ roi_call \in
           [ stage : { "args" },
             x : RoiInts, y : RoiInts, width : RoiInts, height : RoiInts,
             image_width : ImageSizes, image_height : ImageSizes,
             roi : { CreateRoi(0, 0, 0, 0) },
             is_null : { FALSE }, result : { FALSE } ]

\* roi = create_roi(x, y, width, height)
CreateRoiStep ==
    /\ roi_call.stage = "args"
    /\ roi_call' =
           [roi_call EXCEPT
              !.stage = "created",
              !.roi = CreateRoi(roi_call.x, roi_call.y,
                                roi_call.width, roi_call.height)]
    /\ UNCHANGED << detections, statics, observers >>

\* is_valid_roi(&roi, image_width, image_height), or with a null pointer
IsValidRoiStep(is_null) ==
    /\ roi_call.stage = "created"
    /\ \E result \in IsValidRoiOutcomes(is_null, roi_call.roi,
                                        roi_call.image_width,
                                        roi_call.image_height) :
           roi_call' = [roi_call EXCEPT !.stage = "checked",
                                        !.is_null = is_null,
                                        !.result = result]
    /\ UNCHANGED << detections, statics, observers >>

NextRoi ==
    \/ CreateRoiStep
    \/ \E is_null \in BOOLEAN : IsValidRoiStep(is_null)

SpecRoi == RoiInit /\ [][NextRoi]_vars

(***************************************************************************)
(* Properties                                                              *)
(***************************************************************************)

\* The step is a call that ran the locking logic (not a slot's first call).
NonSeedStep == last_call'.branch # "seed"

\* The latest call ran the locking logic.
NonSeedCall == last_call.branch \notin { "none", "seed" }

C2_Idempotence ==
    lock_run # NoStatus => last_call.ret = lock_run

\* C3 (as stated): a lock that is set is never cleared back to the sentinel.
C3_NeverCleared ==
    [][ current_locked_status # MASK_STATUS_UNKNOWN
            => current_locked_status' # MASK_STATUS_UNKNOWN ]_vars

\* C3 (amended): a lock that is set returns to the sentinel only by the
\* switch of an expired lock to the raw status Unknown: the countdown is
\* <= 0 after the decrement, the raw status is Unknown and its streak is at
\* least 12.  No call with another raw status clears the lock.
C3_ClearedOnlyByUnknownSwitch ==
    [][ ( /\ current_locked_status # MASK_STATUS_UNKNOWN
          /\ current_locked_status' = MASK_STATUS_UNKNOWN )
        => /\ NonSeedStep
           /\ last_call'.raw = MASK_STATUS_UNKNOWN
           /\ lock_frames_remaining - 1 <= 0
           /\ same_result_count' >= 12
           /\ run'.length >= 12 ]_vars

C3_Witness ==
    /\ NonSeedCall
    /\ current_locked_status = MASK_STATUS_UNKNOWN
    /\ run.lock # MASK_STATUS_UNKNOWN
    /\ run.status = MASK_STATUS_UNKNOWN
    /\ run.length = 12

C5_HoldUnderNoise ==
    [][ ( /\ NonSeedStep
          /\ current_locked_status # MASK_STATUS_UNKNOWN
          /\ lock_frames_remaining - 1 > 0
          /\ ~ ( /\ current_locked_status = MASK_STATUS_WITH_MASK
                 /\ last_call'.raw = MASK_STATUS_WITHOUT_MASK
                 /\ same_result_count' >= 8 ) )
        => /\ last_call'.ret = current_locked_status
           /\ current_locked_status' = current_locked_status ]_vars

C5_Witness ==
    /\ NonSeedCall
    /\ last_call.raw = MASK_STATUS_WITHOUT_MASK
    /\ same_result_count = 1
    /\ current_locked_status = MASK_STATUS_WITH_MASK
    /\ lock_frames_remaining > 0
    /\ lock_frames_remaining < 89
    /\ last_call.ret = MASK_STATUS_WITH_MASK

C7_ExpiredExtend ==
    [][ ( /\ NonSeedStep
          /\ current_locked_status # MASK_STATUS_UNKNOWN
          /\ lock_frames_remaining - 1 <= 0
          /\ same_result_count' < 12 )
        => /\ lock_frames_remaining' = 20
           /\ current_locked_status' = current_locked_status
           /\ last_call'.ret = current_locked_status ]_vars

C7_Witness ==
    /\ last_call.branch = "extend"
    /\ lock_frames_remaining = 20
    /\ same_result_count = 11
    /\ last_call.raw # current_locked_status
    /\ last_call.ret = current_locked_status

C9_Seed ==
    [][ detections[last_call'.face].history_count = 0
        => /\ last_call'.ret = last_call'.raw
           /\ detections'[last_call'.face].stable_status = last_call'.raw
           /\ DOMAIN detections'[last_call'.face].mask_history = 0 .. 9
           /\ \A k \in 0 .. 9 :
                 detections'[last_call'.face].mask_history[k]
                     = last_call'.raw
           /\ detections'[last_call'.face].history_count # 0
           /\ statics' = statics ]_vars

C9_Witness ==
    /\ last_call.branch = "seed"
    /\ last_call.face = 1
    /\ current_locked_status = MASK_STATUS_WITH_MASK
    /\ last_call.raw = MASK_STATUS_WITHOUT_MASK
    /\ last_call.ret = MASK_STATUS_WITHOUT_MASK
    /\ detections[1].stable_status = MASK_STATUS_WITHOUT_MASK

\* What a call for slot f with raw status r would report now.
Reported(f, r) == SmoothingResult(detections[f], r).ret

\* C10: no cross-face sharing: a call made for one face slot never changes
\* what a call for another slot, with whatever raw status, reports.
C10_Isolation ==
    [][ \A f \in FaceIndex, r \in mask_status_t :
            last_call'.face # f => Reported(f, r)' = Reported(f, r) ]_vars

\* C11: totality: in every reachable state a call for any slot with any of
\* the four raw statuses returns a status of the enumeration and leaves a
\* lock and a previous result of the enumeration and a seeded slot.
C11_Totality ==
    \A f \in FaceIndex, r \in mask_status_t :
        LET res == SmoothingResult(detections[f], r) IN
        /\ res.ret \in mask_status_t
        /\ res.locked \in mask_status_t
        /\ res.prev \in mask_status_t
        /\ res.face.history_count = 1
        /\ res.face.stable_status \in mask_status_t

C11_Witness ==
    /\ last_call.raw = MASK_STATUS_UNKNOWN
    /\ last_call.branch = "switch"
    /\ last_call.ret = MASK_STATUS_UNKNOWN
    /\ detections[0].stable_status = MASK_STATUS_INCORRECT_MASK

\* C12: no flicker for a single face: no three consecutive calls report
\* A, B, A' with B different from both A and A'.
C12_NoFlicker ==
    [][ ~ ( /\ prev_ret # NoStatus
            /\ last_call.ret # prev_ret
            /\ last_call'.ret # last_call.ret ) ]_vars

\* C13: a lock is set only by a call whose run of equal raw statuses has
\* reached 7.
C13_EstablishAfterSeven ==
    [][ ( /\ current_locked_status = MASK_STATUS_UNKNOWN
          /\ current_locked_status' # MASK_STATUS_UNKNOWN )
        => /\ same_result_count' >= 7
           /\ run'.length >= 7 ]_vars

\* C14: the lock never changes from one non-sentinel status to another on
\* a call whose streak is below 15.
C14_ChangeAfterFifteen ==
    [][ ( /\ current_locked_status # MASK_STATUS_UNKNOWN
          /\ current_locked_status' # MASK_STATUS_UNKNOWN
          /\ current_locked_status' # current_locked_status )
        => same_result_count' >= 15 ]_vars

\* C15: each of the 90 calls that follow a call that set the lock reports
\* the status the lock was set to.
C15_HeldNinetyFrames ==
    (held.status # NoStatus /\ held.calls >= 1 /\ held.calls <= 90)
        => last_call.ret = held.status

\* C16: create_roi yields valid = TRUE exactly when width > 0 and
\* height > 0, and is_valid_roi is TRUE exactly when the ROI is non-null
\* and valid, x >= 0, y >= 0, width > 0, height > 0, x + width <= W and
\* y + height <= H.
C16_RoiValidity ==
    /\ roi_call.stage \in { "created", "checked" } =>
          ( roi_call.roi.valid
              <=> (roi_call.width > 0 /\ roi_call.height > 0) )
    /\ roi_call.stage = "checked" =>
          ( roi_call.result
              <=> /\ ~roi_call.is_null
                  /\ roi_call.roi.valid
                  /\ roi_call.roi.x >= 0
                  /\ roi_call.roi.y >= 0
                  /\ roi_call.roi.width > 0
                  /\ roi_call.roi.height > 0
                  /\ roi_call.roi.x
                         <= roi_call.image_width - roi_call.roi.width
                  /\ roi_call.roi.y
                         <= roi_call.image_height - roi_call.roi.height )

\* C17: on every non-seed call, if the raw status equals previous_result the
\* streak same_result_count grows by 1 and previous_result is kept, otherwise
\* the streak becomes 1 and previous_result becomes the raw status; hence the
\* streak is >= 1 after such a call and equals the length of the trailing
\* run of equal raw statuses over the non-seed calls.
C17_StreakTracking ==
    [][ NonSeedStep
        => /\ IF last_call'.raw = previous_result
              THEN /\ same_result_count' = same_result_count + 1
                   /\ previous_result' = previous_result
              ELSE /\ same_result_count' = 1
                   /\ previous_result' = last_call'.raw
           /\ same_result_count' >= 1
           /\ run'.status = last_call'.raw
           /\ same_result_count' = run'.length ]_vars

C17_Witness ==
    /\ NonSeedCall
    /\ last_call.face = 1
    /\ detections[0].history_count = 1
    /\ previous_result = MASK_STATUS_WITHOUT_MASK
    /\ same_result_count = 3
    /\ run.length = 3

\* C18: lock_frames_remaining is >= 0 in every reachable state.
C18_RemainingNeverNegative ==
    lock_frames_remaining >= 0

\* C19: a call that changes current_locked_status is a non-seed call, the
\* new value is that call's raw status and the streak after the update is
\* >= 5 and counts that many trailing equal raw statuses; when a lock was
\* active, the change needs a streak >= 8 while the countdown is > 0 after
\* the decrement (and goes from WithMask to WithoutMask) and a streak >= 12
\* once the countdown is <= 0.
C19_LockChangesInsideRules ==
    [][ current_locked_status' # current_locked_status
        => /\ NonSeedStep
           /\ current_locked_status' = last_call'.raw
           /\ same_result_count' >= 5
           /\ run'.length >= 5
           /\ run'.status = last_call'.raw
           /\ ( current_locked_status # MASK_STATUS_UNKNOWN
                  /\ lock_frames_remaining - 1 > 0 )
              => /\ same_result_count' >= 8
                 /\ current_locked_status = MASK_STATUS_WITH_MASK
                 /\ current_locked_status' = MASK_STATUS_WITHOUT_MASK
           /\ ( current_locked_status # MASK_STATUS_UNKNOWN
                  /\ lock_frames_remaining - 1 <= 0 )
              => same_result_count' >= 12 ]_vars

C19_Witness ==
    /\ last_call.branch = "switch"
    /\ run.lock = MASK_STATUS_WITHOUT_MASK
    /\ current_locked_status = MASK_STATUS_INCORRECT_MASK
    /\ last_call.raw = MASK_STATUS_INCORRECT_MASK
    /\ same_result_count = 12
    /\ lock_frames_remaining = 60

C22_SharedLock ==
    [][ ( /\ NonSeedStep
          /\ current_locked_status # MASK_STATUS_UNKNOWN
          /\ lock_frames_remaining - 1 > 0 )
        => /\ last_call'.ret = current_locked_status'
           /\ \/ current_locked_status' = current_locked_status
              \/ /\ last_call'.branch = "fast_exit"
                 /\ current_locked_status = MASK_STATUS_WITH_MASK
                 /\ current_locked_status' = MASK_STATUS_WITHOUT_MASK ]_vars

C22_Witness ==
    /\ last_call.face = 1
    /\ last_call.branch = "hold"
    /\ current_locked_status = MASK_STATUS_WITH_MASK
    /\ lock_frames_remaining = 89
    /\ last_call.raw = MASK_STATUS_WITHOUT_MASK
    /\ detections[1].stable_status = MASK_STATUS_WITHOUT_MASK
    /\ last_call.ret = MASK_STATUS_WITH_MASK

C25_AsymmetricOverride ==
    [][ ( /\ current_locked_status # MASK_STATUS_UNKNOWN
          /\ lock_frames_remaining - 1 > 0
          /\ current_locked_status' # current_locked_status )
        => /\ current_locked_status = MASK_STATUS_WITH_MASK
           /\ current_locked_status' = MASK_STATUS_WITHOUT_MASK ]_vars

C25_Witness ==
    /\ last_call.branch = "hold"
    /\ current_locked_status = MASK_STATUS_WITHOUT_MASK
    /\ last_call.raw = MASK_STATUS_WITH_MASK
    /\ same_result_count = 8
    /\ lock_frames_remaining > 0
    /\ last_call.ret = MASK_STATUS_WITHOUT_MASK

\* C26: after a call sets the lock to WithMask each of the next 7 calls
\* returns WithMask, and after a call sets it to another status that is not
\* Unknown each of the next 59 calls returns that status, whatever the raw
\* statuses are.
C26_MinimumHold ==
    [][ ( /\ held.status # NoStatus
          /\ held.calls < ( IF held.status = MASK_STATUS_WITH_MASK
                            THEN 7 ELSE 59 ) )
        => /\ last_call'.ret = held.status
           /\ current_locked_status' = held.status
           /\ held'.calls = held.calls + 1 ]_vars

C26_Witness ==
    /\ held.status = MASK_STATUS_WITH_MASK
    /\ held.calls = 7
    /\ last_call.raw = MASK_STATUS_WITHOUT_MASK
    /\ same_result_count = 7
    /\ last_call.ret = MASK_STATUS_WITH_MASK

\* C30: with no lock active, a non-seed call with raw status Unknown and a
\* streak >= 5 returns Unknown, sets lock_frames_remaining to 60 and leaves
\* current_locked_status at Unknown, so no lock is active afterwards.
C30_UnknownStreak ==
    [][ ( /\ NonSeedStep
          /\ current_locked_status = MASK_STATUS_UNKNOWN
          /\ last_call'.raw = MASK_STATUS_UNKNOWN
          /\ same_result_count' >= 5 )
        => /\ last_call'.ret = MASK_STATUS_UNKNOWN
           /\ lock_frames_remaining' = 60
           /\ current_locked_status' = MASK_STATUS_UNKNOWN ]_vars

C30_Witness ==
    /\ last_call.branch = "establish"
    /\ last_call.raw = MASK_STATUS_UNKNOWN
    /\ same_result_count >= 5
    /\ detections[0].stable_status = MASK_STATUS_WITH_MASK
    /\ last_call.ret = MASK_STATUS_UNKNOWN
    /\ current_locked_status = MASK_STATUS_UNKNOWN
    /\ lock_frames_remaining = 60

\* C24: the diagnostic counter runs over all calls, and a call emits a
\* diagnostic record exactly when it is the 30th, 60th, ... call; stated
\* over the calls of the end-to-end scenario, whose number script_pos
\* keeps.
C24_DiagnosticsCadence ==
    ( script_pos # NoStatus /\ script_pos > 0 )
        => /\ Len(last_call.log) >= 1 <=> script_pos % 30 = 0
           /\ debug_frame_count = script_pos

\* C27: once the calls have carried the same raw status R 90 times in a
\* row, current_locked_status equals R, and it stays R for as long as the
\* run of R goes on.
C27_Convergence ==
    [][ /\ run'.length >= 90 => current_locked_status' = run'.status
        /\ ( NonSeedStep /\ last_call'.raw = current_locked_status )
           => current_locked_status' = current_locked_status ]_vars

C27_Witness ==
    /\ run.length = 90
    /\ last_call.branch = "switch"
    /\ run.lock = MASK_STATUS_WITH_MASK
    /\ run.status = MASK_STATUS_INCORRECT_MASK
    /\ current_locked_status = MASK_STATUS_INCORRECT_MASK

LockOnlyExtended ==
    /\ current_locked_status' = current_locked_status
    /\ current_locked_status # MASK_STATUS_UNKNOWN
          => IF lock_frames_remaining - 1 > 0
             THEN lock_frames_remaining' = lock_frames_remaining - 1
             ELSE /\ last_call'.branch = "extend"
                  /\ lock_frames_remaining' = 20

\* C29 as stated: with two seeded slots updated alternately and differing
\* raw statuses within each frame, the streak is 1 after every call, no
\* lock is established and an active lock is only extended.  A call for
\* slot 1 after slot 0 with another raw status is the second call of such
\* a frame; a call for slot 0 that finds the streak at 1 after a call for
\* slot 1 follows such a frame.
C29_StreakAlwaysOne ==
    [][ /\ ( /\ NonSeedStep /\ NonSeedCall
             /\ last_call.face = 0 /\ last_call'.face = 1
             /\ last_call'.raw # last_call.raw )
           => ( same_result_count' = 1 /\ LockOnlyExtended )
        /\ ( /\ NonSeedStep /\ NonSeedCall
             /\ last_call.face = 1 /\ last_call'.face = 0
             /\ same_result_count = 1 )
           => ( same_result_count' = 1 /\ LockOnlyExtended ) ]_vars

\* C29, amended: in such frames the streak is 1 after every call for slot 1
\* and at most 2 after every call for slot 0 (2 when slot 0's raw status
\* equals the one slot 1 had in the frame before); no lock is established
\* and an active lock is never switched, only extended by 20 at each expiry.
C29_StreakAtMostTwo ==
    [][ /\ ( /\ NonSeedStep /\ NonSeedCall
             /\ last_call.face = 0 /\ last_call'.face = 1
             /\ last_call'.raw # last_call.raw )
           => ( same_result_count' = 1 /\ LockOnlyExtended )
        /\ ( /\ NonSeedStep /\ NonSeedCall
             /\ last_call.face = 1 /\ last_call'.face = 0
             /\ same_result_count = 1 )
           => /\ same_result_count' =
                     ( IF last_call'.raw = last_call.raw THEN 2 ELSE 1 )
              /\ LockOnlyExtended ]_vars

C29_Witness ==
    /\ last_call.face = 0
    /\ last_call.branch = "extend"
    /\ same_result_count = 2
    /\ lock_frames_remaining = 20
    /\ current_locked_status = MASK_STATUS_WITH_MASK
    /\ last_call.raw = MASK_STATUS_WITHOUT_MASK
====
